---- MODULE Spec2Model ----
(***************************************************************************)
(* Realtime session controller of the interview simulator                  *)
(* (src/components/LiveSession.tsx): connection lifecycle, inbound message *)
(* handling, playback scheduling and the coaching tool-call pipeline.      *)
(***************************************************************************)
EXTENDS Integers, Sequences, FiniteSets, TLC

\* ---------------------------------------------------------------- bounds
MaxAttempts == 3      \* connectToGemini invocations in one behaviour
MaxErrors == 2        \* transport error events in one behaviour
MaxToolMsgs == 1      \* inbound toolCall messages in one behaviour
MaxTextMsgs == 3      \* inbound transcription / turnComplete messages
MaxChunks == 2        \* inbound audio chunks
MaxInterrupts == 1    \* inbound interrupted signals
MaxClock == 3         \* last tick of the clocks
MaxDur == 2           \* longest audio chunk, in ticks
MaxText == 2          \* longest pending transcription, in characters
MaxHistory == 25      \* longest transcript drawn for the instruction builder
TickMs == 40          \* milliseconds of wall clock per tick
MaxFrames == 2        \* audio frames the capture taps fire
MaxToggles == 2       \* clicks on the microphone button
MaxSteers == 2        \* submissions of the steering input
MaxEvents == 5        \* messages, errors and submissions where all are mixed

\* ------------------------------------------------------ program constants
ReplayTurns == 20
ReferenceOffset == 50
HintOffset == 100

\* ------------------------------------------------------------------ data
Attempts == 1..MaxAttempts
Undefined == <<"undefined">>
Fragments == {<<" ">>, <<"a">>}
Personas == {"persona-A", "persona-B"}
MountPersonas == {"persona-A"}
Moods == {"Strict"}

NoFeedback == [present |-> FALSE, score |-> Undefined, advice |-> Undefined,
               refined_response |-> Undefined]
Feedbacks == {NoFeedback,
              [present |-> TRUE, score |-> <<"s">>, advice |-> <<>>,
               refined_response |-> Undefined],
              [present |-> TRUE, score |-> <<"s">>, advice |-> <<"a">>,
               refined_response |-> <<"r">>]}

InterviewerMindset ==
    [mood : Moods, internal_thought : {"thinking"},
     suggested_answer_tips : {Undefined, <<"h">>},
     reference_answer_for_question : {Undefined, <<"r">>},
     last_answer_feedback : Feedbacks]

NoMeta == [score |-> Undefined, refined_answer |-> Undefined]

ChatMessage(role, text, timestamp, metadata) ==
    [role |-> role, text |-> text, timestamp |-> timestamp, metadata |-> metadata]

OtherArgs == [mood |-> "Strict", internal_thought |-> "thinking",
              suggested_answer_tips |-> <<"h">>,
              reference_answer_for_question |-> <<"r">>,
              last_answer_feedback |-> NoFeedback]

FunctionCalls ==
    [name : {"update_mindset"}, args : InterviewerMindset]
        \cup {[name |-> "other_tool", args |-> OtherArgs]}

\* the calls drawn for the second place of a batch: another tool, a call with no
\* coaching field and a call with all three
FollowUpCalls ==
    {c \in FunctionCalls :
        \/ c.name # "update_mindset"
        \/ /\ c.args.suggested_answer_tips = Undefined
           /\ c.args.reference_answer_for_question = Undefined
           /\ c.args.last_answer_feedback = NoFeedback
        \/ /\ c.args.suggested_answer_tips # Undefined
           /\ c.args.reference_answer_for_question # Undefined
           /\ c.args.last_answer_feedback.advice = <<"a">>}

\* a toolCall message carries one call or two
ToolCallMessages ==
    [kind : {"toolCall"},
     calls : {<<c>> : c \in FunctionCalls}
                 \cup {<<c, d>> : c \in FunctionCalls, d \in FollowUpCalls}]

ContentMessages ==
    [kind : {"content"},
     outputTranscription : {Undefined} \cup Fragments,
     inputTranscription : {Undefined} \cup Fragments,
     turnComplete : BOOLEAN,
     audio : 0..MaxDur,
     interrupted : BOOLEAN]

HasText(m) == \/ m.outputTranscription # Undefined
              \/ m.inputTranscription # Undefined
              \/ m.turnComplete
TextMessages == {m \in ContentMessages : HasText(m) /\ m.audio = 0 /\ ~m.interrupted}
AudioMessages == {m \in ContentMessages : ~HasText(m) /\ (m.audio > 0 \/ m.interrupted)}

\* ------------------------------------------------------- pure functions
Max(a, b) == IF a >= b THEN a ELSE b
Min(a, b) == IF a <= b THEN a ELSE b

\* String.prototype.trim
RECURSIVE TrimStart(_)
TrimStart(s) == IF s # <<>> /\ Head(s) = " " THEN TrimStart(Tail(s)) ELSE s
RECURSIVE TrimEnd(_)
TrimEnd(s) ==
    IF s # <<>> /\ s[Len(s)] = " " THEN TrimEnd(SubSeq(s, 1, Len(s) - 1)) ELSE s
Trim(s) == TrimEnd(TrimStart(s))

\* truthiness of an optional string
Truthy(x) == x # Undefined /\ x # <<>>

\* Array.prototype.slice(-n)
SliceLast(s, n) == IF Len(s) <= n THEN s ELSE SubSeq(s, Len(s) - n + 1, Len(s))

IsSpoken(m) == m.role = "user" \/ m.role = "model"
Label(role) == IF role = "user" THEN "Candidate" ELSE "Interviewer"

ReplayOldest(history) ==
    LET spoken == SelectSeq(history, IsSpoken)
        kept == SubSeq(spoken, 1, Min(Len(spoken), ReplayTurns))
    IN [i \in 1..Len(kept) |-> <<Label(kept[i].role), ": ", kept[i].text>>]

\* the transcript lines of the reconnect block: filter, slice(-20), map
ReplayTranscript(history) ==
    LET kept == SliceLast(SelectSeq(history, IsSpoken), ReplayTurns)
    IN [i \in 1..Len(kept) |-> <<Label(kept[i].role), ": ", kept[i].text>>]

InstructionAlwaysReplays(retry, persona, history) ==
    IF Len(history) > 0
    THEN [persona |-> persona, restored |-> TRUE,
          transcript |-> ReplayTranscript(history)]
    ELSE [persona |-> persona, restored |-> FALSE, transcript |-> <<>>]

\* finalSystemInstruction
FinalSystemInstruction(retry, persona, history) ==
    IF retry /\ Len(history) > 0
    THEN [persona |-> persona, restored |-> TRUE,
          transcript |-> ReplayTranscript(history)]
    ELSE [persona |-> persona, restored |-> FALSE, transcript |-> <<>>]

NoInstruction == [persona |-> "", restored |-> FALSE, transcript |-> <<>>]

CoachingTurnsAlwaysHint(newMindset, now) ==
    <<ChatMessage("coach-hint", newMindset.suggested_answer_tips, now + HintOffset,
                  NoMeta)>>

CoachingTurnsUnstaggered(newMindset, now) ==
    (IF newMindset.last_answer_feedback.present
        /\ Truthy(newMindset.last_answer_feedback.advice)
     THEN <<ChatMessage("coach-feedback", newMindset.last_answer_feedback.advice, now,
                        [score |-> newMindset.last_answer_feedback.score,
                         refined_answer |->
                             newMindset.last_answer_feedback.refined_response])>>
     ELSE <<>>)
    \o (IF Truthy(newMindset.reference_answer_for_question)
        THEN <<ChatMessage("coach-reference", newMindset.reference_answer_for_question,
                           now, NoMeta)>>
        ELSE <<>>)
    \o (IF Truthy(newMindset.suggested_answer_tips)
        THEN <<ChatMessage("coach-hint", newMindset.suggested_answer_tips, now,
                           NoMeta)>>
        ELSE <<>>)

\* Coaching turns injected by one update_mindset call at wall-clock time now
CoachingTurns(newMindset, now) ==
    (IF newMindset.last_answer_feedback.present
        /\ Truthy(newMindset.last_answer_feedback.advice)
     THEN <<ChatMessage("coach-feedback", newMindset.last_answer_feedback.advice, now,
                        [score |-> newMindset.last_answer_feedback.score,
                         refined_answer |->
                             newMindset.last_answer_feedback.refined_response])>>
     ELSE <<>>)
    \o (IF Truthy(newMindset.reference_answer_for_question)
        THEN <<ChatMessage("coach-reference", newMindset.reference_answer_for_question,
                           now + ReferenceOffset, NoMeta)>>
        ELSE <<>>)
    \o (IF Truthy(newMindset.suggested_answer_tips)
        THEN <<ChatMessage("coach-hint", newMindset.suggested_answer_tips,
                           now + HintOffset, NoMeta)>>
        ELSE <<>>)

TurnCompleteTurnsModelFirst(userText, modelText, now) ==
    (IF Trim(modelText) # <<>> THEN <<ChatMessage("model", modelText, now, NoMeta)>>
     ELSE <<>>)
    \o (IF Trim(userText) # <<>> THEN <<ChatMessage("user", userText, now, NoMeta)>>
        ELSE <<>>)

\* Turns committed at a turn boundary
TurnCompleteTurns(userText, modelText, now) ==
    (IF Trim(userText) # <<>> THEN <<ChatMessage("user", userText, now, NoMeta)>>
     ELSE <<>>)
    \o (IF Trim(modelText) # <<>> THEN <<ChatMessage("model", modelText, now, NoMeta)>>
        ELSE <<>>)

IsMindsetCall(call) == call.name = "update_mindset"

\* the chat history after the setChatHistory updaters of the calls of one message
RECURSIVE InjectCoaching(_, _, _)
InjectCoaching(history, calls, now) ==
    IF calls = <<>> THEN history
    ELSE InjectCoaching(IF IsMindsetCall(Head(calls))
                        THEN history \o CoachingTurns(Head(calls).args, now)
                        ELSE history,
                        Tail(calls), now)

\* ----------------------------------------------------------------- state
VARIABLES
    config,                 \* config.systemInstruction
    apiKey,                 \* process.env.API_KEY is set
    mounted,                \* the component is mounted
    connectionStatus, sessionStatus, errorDetails,
    chatHistory, chatHistoryRef, mindset,
    streamRef,              \* "none" | "live" | "stopped"
    audioContexts,          \* "none" | "running" | "closed" (input and output)
    nextStartTime,          \* nextStartTimeRef
    sources,                \* sourcesRef: indices into segments
    stopping,               \* stopped sources whose 'ended' event is pending
    frameInterval,          \* frameIntervalRef: 0 or the session the timer sends to
    animationLoops,         \* sessions whose animation loop runs
    animationFrameRef,      \* 0 or the session whose loop the ref names
    audioTaps,              \* sessions with a connected script processor
    activeSessionRef,       \* 0 or a session
    currentInputTranscription, currentOutputTranscription,
    pc,                     \* position of each connectToGemini invocation
    isRetry,                \* argument of each invocation
    session,                \* transport state of the session of each invocation
    systemInstruction,      \* instruction each invocation passed to connect
    decoding,               \* audio chunks awaiting decodeAudioData
    microtasks,             \* promise reactions not yet run
    toolCallsSeen,          \* function calls delivered: <<session, id, name>>
    toolResponses,          \* sendToolResponse calls made
    segments,               \* source.start calls made
    clock,                  \* tick of ctx.currentTime and Date.now()
    epoch,                  \* interruptions handled
    msgCount, errCount,
    lastOp,                 \* the handler that ran last
    isMicOn, isMicOnRef,    \* the capture-enabled flag: state and ref
    audioVolume,            \* level shown by the volume meter
    steeringInput,          \* text in the steering input
    contentSent,            \* typed content messages the transport accepted
    mediaSent,              \* audio chunks the transport accepted
    uiCount                 \* frames fired, microphone clicks, steering submissions

vars == <<config, apiKey, mounted, connectionStatus, sessionStatus, errorDetails,
          chatHistory, chatHistoryRef, mindset, streamRef, audioContexts,
          nextStartTime, sources, stopping, frameInterval, animationLoops,
          animationFrameRef, audioTaps, activeSessionRef,
          currentInputTranscription, currentOutputTranscription, pc, isRetry,
          session, systemInstruction, decoding, microtasks, toolCallsSeen,
          toolResponses, segments, clock, epoch, msgCount, errCount, lastOp,
          isMicOn, isMicOnRef, audioVolume, steeringInput, contentSent, mediaSent,
          uiCount>>

connVars == <<connectionStatus, errorDetails, activeSessionRef, pc, isRetry, session,
              systemInstruction, streamRef, audioContexts>>
tapVars == <<frameInterval, animationLoops, animationFrameRef, audioTaps>>
chatVars == <<chatHistory, chatHistoryRef, mindset, currentInputTranscription,
              currentOutputTranscription, toolCallsSeen, toolResponses>>
playVars == <<nextStartTime, sources, stopping, decoding, segments, epoch>>
micVars == <<isMicOn, isMicOnRef, audioVolume, mediaSent>>
steerVars == <<steeringInput, contentSent>>
uiVars == <<isMicOn, isMicOnRef, audioVolume, mediaSent, steeringInput, contentSent,
            uiCount>>

Now == clock * TickMs

Op(name, a) == [op |-> name, sess |-> a, turnComplete |-> FALSE,
                interrupted |-> FALSE, audio |-> FALSE]

\* a state setter: no effect once the component is unmounted
SetState(old, new) == IF mounted THEN new ELSE old

InitialMindset == [mood |-> "Neutral", internal_thought |-> "preparing",
                   suggested_answer_tips |-> Undefined,
                   reference_answer_for_question |-> Undefined,
                   last_answer_feedback |-> NoFeedback]

\* the controls after the first render
InitControls ==
    /\ isMicOn = TRUE
    /\ isMicOnRef = TRUE
    /\ audioVolume = 0
    /\ steeringInput = <<>>
    /\ contentSent = <<>>
    /\ mediaSent = 0
    /\ uiCount = [frames |-> 0, toggles |-> 0, steers |-> 0]

Init ==
    /\ InitControls
    /\ config \in MountPersonas
    /\ apiKey \in BOOLEAN
    /\ mounted = TRUE
    /\ connectionStatus = "initializing"
    /\ sessionStatus = "listening"
    /\ errorDetails = "null"
    /\ chatHistory = <<>>
    /\ chatHistoryRef = <<>>
    /\ mindset = InitialMindset
    /\ streamRef = "none"
    /\ audioContexts = "none"
    /\ nextStartTime = 0
    /\ sources = {}
    /\ stopping = {}
    /\ frameInterval = 0
    /\ animationLoops = {}
    /\ animationFrameRef = 0
    /\ audioTaps = {}
    /\ activeSessionRef = 0
    /\ currentInputTranscription = <<>>
    /\ currentOutputTranscription = <<>>
    /\ pc = [a \in Attempts |-> "unused"]
    /\ isRetry = [a \in Attempts |-> FALSE]
    /\ session = [a \in Attempts |-> "none"]
    /\ systemInstruction = [a \in Attempts |-> NoInstruction]
    /\ decoding = <<>>
    /\ microtasks = <<>>
    /\ toolCallsSeen = <<>>
    /\ toolResponses = <<>>
    /\ segments = <<>>
    /\ clock = 0
    /\ epoch = 0
    /\ msgCount = [tool |-> 0, text |-> 0, audio |-> 0, interrupted |-> 0]
    /\ errCount = 0
    /\ lastOp = Op("init", 0)

\* ------------------------------------------------- connection lifecycle
HasAttempt == \E a \in Attempts : pc[a] = "unused"
NextAttempt == CHOOSE a \in Attempts :
                   pc[a] = "unused" /\ \A b \in Attempts : b < a => pc[b] # "unused"

\* session.close() on the handle h (0: no handle)
CloseSession(sess, h) ==
    IF h # 0 /\ sess[h] = "open" THEN [sess EXCEPT ![h] = "closing"] ELSE sess

ConnectToGeminiKeyUnchecked(retry) ==
    /\ microtasks = <<>>
    /\ HasAttempt
    /\ LET a == NextAttempt
           closed == CloseSession(session, activeSessionRef)
       IN /\ connectionStatus' =
                 SetState(connectionStatus,
                          IF retry THEN "reconnecting" ELSE "connecting")
          /\ errorDetails' = SetState(errorDetails, "null")
          /\ audioContexts' =
                 IF audioContexts = "none" THEN "running" ELSE audioContexts
          /\ isRetry' = [isRetry EXCEPT ![a] = retry]
          /\ IF streamRef = "none"
             THEN /\ pc' = [pc EXCEPT ![a] = "media"]
                  /\ session' = closed
                  /\ UNCHANGED systemInstruction
             ELSE /\ pc' = [pc EXCEPT ![a] = "opening"]
                  /\ session' = [closed EXCEPT ![a] = "pending"]
                  /\ systemInstruction' =
                         [systemInstruction EXCEPT ![a] =
                             FinalSystemInstruction(retry, config, chatHistoryRef)]
          /\ lastOp' = Op("connect", a)
          /\ UNCHANGED <<activeSessionRef, streamRef>>
    /\ UNCHANGED <<config, apiKey, mounted, sessionStatus, mindset, chatHistory,
                   chatHistoryRef, currentInputTranscription,
                   currentOutputTranscription, toolCallsSeen, toolResponses,
                   decoding, microtasks, clock, msgCount, errCount>>
    /\ UNCHANGED <<nextStartTime, sources, stopping, segments, epoch>>
    /\ UNCHANGED tapVars
    /\ UNCHANGED uiVars

\* connectToGemini from the start to its first suspension
ConnectToGemini(retry) ==
    /\ microtasks = <<>>
    /\ IF ~apiKey
       THEN /\ connectionStatus' = SetState(connectionStatus, "error")
            /\ errorDetails' = SetState(errorDetails, "API Key missing")
            /\ lastOp' = Op("connect", 0)
            /\ UNCHANGED <<activeSessionRef, pc, isRetry, session, systemInstruction,
                           streamRef, audioContexts>>
       ELSE /\ HasAttempt
            /\ LET a == NextAttempt
                   closed == CloseSession(session, activeSessionRef)
               IN /\ connectionStatus' =
                         SetState(connectionStatus,
                                  IF retry THEN "reconnecting" ELSE "connecting")
                  /\ errorDetails' = SetState(errorDetails, "null")
                  /\ audioContexts' =
                         IF audioContexts = "none" THEN "running" ELSE audioContexts
                  /\ isRetry' = [isRetry EXCEPT ![a] = retry]
                  /\ IF streamRef = "none"
                     THEN /\ pc' = [pc EXCEPT ![a] = "media"]
                          /\ session' = closed
                          /\ UNCHANGED systemInstruction
                     ELSE /\ pc' = [pc EXCEPT ![a] = "opening"]
                          /\ session' = [closed EXCEPT ![a] = "pending"]
                          /\ systemInstruction' =
                                 [systemInstruction EXCEPT ![a] =
                                     FinalSystemInstruction(retry, config, chatHistoryRef)]
                  /\ lastOp' = Op("connect", a)
                  /\ UNCHANGED <<activeSessionRef, streamRef>>
    /\ UNCHANGED <<config, apiKey, mounted, sessionStatus, mindset, chatHistory,
                   chatHistoryRef, currentInputTranscription,
                   currentOutputTranscription, toolCallsSeen, toolResponses,
                   decoding, microtasks, clock, msgCount, errCount>>
    /\ UNCHANGED <<nextStartTime, sources, stopping, segments, epoch>>
    /\ UNCHANGED tapVars
    /\ UNCHANGED uiVars

\* the mount effect
InitialConnect ==
    /\ mounted
    /\ connectionStatus = "initializing"
    /\ \A a \in Attempts : pc[a] = "unused"
    /\ ConnectToGemini(FALSE)

\* the retry button of the error overlay
RetryConnection ==
    /\ mounted
    /\ connectionStatus = "error"
    /\ ConnectToGemini(TRUE)

\* getUserMedia resolves: the rest of connectToGemini up to await sessionPromise
MediaGranted(a) ==
    /\ microtasks = <<>>
    /\ pc[a] = "media"
    /\ streamRef' = "live"
    /\ pc' = [pc EXCEPT ![a] = "opening"]
    /\ session' = [session EXCEPT ![a] = "pending"]
    /\ systemInstruction' =
           [systemInstruction EXCEPT ![a] =
               FinalSystemInstruction(isRetry[a], config, chatHistoryRef)]
    /\ lastOp' = Op("mediaGranted", a)
    /\ UNCHANGED <<config, apiKey, mounted, connectionStatus, sessionStatus,
                   errorDetails, audioContexts, activeSessionRef, isRetry, decoding,
                   microtasks, clock, msgCount, errCount>>
    /\ UNCHANGED <<nextStartTime, sources, stopping, segments, epoch>>
    /\ UNCHANGED chatVars
    /\ UNCHANGED tapVars
    /\ UNCHANGED uiVars

MediaDeniedWithoutDetail(a) ==
    /\ microtasks = <<>>
    /\ pc[a] = "media"
    /\ pc' = [pc EXCEPT ![a] = "failed"]
    /\ connectionStatus' = SetState(connectionStatus, "error")
    /\ lastOp' = Op("mediaDenied", a)
    /\ UNCHANGED <<config, apiKey, mounted, sessionStatus, streamRef, audioContexts,
                   activeSessionRef, isRetry, session, systemInstruction, decoding,
                   microtasks, clock, msgCount, errCount, errorDetails>>
    /\ UNCHANGED <<nextStartTime, sources, stopping, segments, epoch>>
    /\ UNCHANGED chatVars
    /\ UNCHANGED tapVars
    /\ UNCHANGED uiVars

MediaDeniedProceeds(a) ==
    /\ microtasks = <<>>
    /\ pc[a] = "media"
    /\ pc' = [pc EXCEPT ![a] = "opening"]
    /\ session' = [session EXCEPT ![a] = "pending"]
    /\ systemInstruction' =
           [systemInstruction EXCEPT ![a] =
               FinalSystemInstruction(isRetry[a], config, chatHistoryRef)]
    /\ lastOp' = Op("mediaDenied", a)
    /\ UNCHANGED <<config, apiKey, mounted, connectionStatus, sessionStatus,
                   errorDetails, streamRef, audioContexts, activeSessionRef, isRetry,
                   decoding, microtasks, clock, msgCount, errCount>>
    /\ UNCHANGED <<nextStartTime, sources, stopping, segments, epoch>>
    /\ UNCHANGED chatVars
    /\ UNCHANGED tapVars
    /\ UNCHANGED uiVars

\* getUserMedia rejects: the catch block
MediaDenied(a) ==
    /\ microtasks = <<>>
    /\ pc[a] = "media"
    /\ pc' = [pc EXCEPT ![a] = "failed"]
    /\ connectionStatus' = SetState(connectionStatus, "error")
    /\ errorDetails' = SetState(errorDetails, "init failed")
    /\ lastOp' = Op("mediaDenied", a)
    /\ UNCHANGED <<config, apiKey, mounted, sessionStatus, streamRef, audioContexts,
                   activeSessionRef, isRetry, session, systemInstruction, decoding,
                   microtasks, clock, msgCount, errCount>>
    /\ UNCHANGED <<nextStartTime, sources, stopping, segments, epoch>>
    /\ UNCHANGED chatVars
    /\ UNCHANGED tapVars
    /\ UNCHANGED uiVars

\* sessionPromise rejects: the catch block
ConnectRejected(a) ==
    /\ microtasks = <<>>
    /\ pc[a] = "opening"
    /\ session[a] = "pending"
    /\ pc' = [pc EXCEPT ![a] = "failed"]
    /\ session' = [session EXCEPT ![a] = "dead"]
    /\ connectionStatus' = SetState(connectionStatus, "error")
    /\ errorDetails' = SetState(errorDetails, "init failed")
    /\ lastOp' = Op("connectRejected", a)
    /\ UNCHANGED <<config, apiKey, mounted, sessionStatus, streamRef, audioContexts,
                   activeSessionRef, isRetry, systemInstruction, decoding,
                   microtasks, clock, msgCount, errCount>>
    /\ UNCHANGED <<nextStartTime, sources, stopping, segments, epoch>>
    /\ UNCHANGED chatVars
    /\ UNCHANGED tapVars
    /\ UNCHANGED uiVars

ResolveFirst(a) == [type |-> "resolve", sess |-> 1, id |-> 0, name |-> ""]

\* the continuation of "await sessionPromise"
Resolve(a) == [type |-> "resolve", sess |-> a, id |-> 0, name |-> ""]

ToolResponseWithoutId(a, id, name) ==
    [type |-> "toolResponse", sess |-> a, id |-> 0, name |-> name]

\* sessionPromise.then(session => session.sendToolResponse(...)) for one call
ToolResponse(a, id, name) == [type |-> "toolResponse", sess |-> a, id |-> id, name |-> name]

\* callbacks.onopen, with startLoops
OnOpen(a) ==
    /\ microtasks = <<>>
    /\ session[a] = "pending"
    /\ session' = [session EXCEPT ![a] = "open"]
    /\ connectionStatus' = SetState(connectionStatus, "connected")
    /\ sessionStatus' = SetState(sessionStatus, "listening")
    /\ mindset' = SetState(mindset,
           [mindset EXCEPT !.internal_thought =
               IF isRetry[a] THEN "restored" ELSE "starting"])
    /\ audioTaps' = audioTaps \cup {a}
    /\ frameInterval' = a
    /\ animationLoops' = animationLoops \cup {a}
    /\ animationFrameRef' = a
    /\ microtasks' = <<Resolve(a)>>
    /\ lastOp' = Op("open", a)
    /\ UNCHANGED <<config, apiKey, mounted, errorDetails, streamRef, audioContexts,
                   activeSessionRef, pc, isRetry, systemInstruction, decoding, clock,
                   msgCount, errCount, chatHistory, chatHistoryRef,
                   currentInputTranscription, currentOutputTranscription,
                   toolCallsSeen, toolResponses>>
    /\ UNCHANGED <<nextStartTime, sources, stopping, segments, epoch>>
    /\ UNCHANGED uiVars

OnErrorReleasing(a, fatal) ==
    /\ microtasks = <<>>
    /\ session[a] \in {"pending", "open", "closing"}
    /\ errCount < MaxErrors
    /\ errCount' = errCount + 1
    /\ session' = IF fatal THEN [session EXCEPT ![a] = "dead"] ELSE session
    /\ connectionStatus' = SetState(connectionStatus, "error")
    /\ errorDetails' = SetState(errorDetails, "connection lost")
    /\ streamRef' = IF streamRef = "live" THEN "stopped" ELSE streamRef
    /\ audioContexts' = IF audioContexts = "running" THEN "closed" ELSE audioContexts
    /\ lastOp' = Op("error", a)
    /\ UNCHANGED <<config, apiKey, mounted, sessionStatus,
                   activeSessionRef, pc, isRetry, systemInstruction, decoding,
                   microtasks, clock, msgCount>>
    /\ UNCHANGED <<nextStartTime, sources, stopping, segments, epoch>>
    /\ UNCHANGED chatVars
    /\ UNCHANGED tapVars
    /\ UNCHANGED uiVars

\* callbacks.onerror: the callback says nothing of the session's fate, which may
\* end with the error (fatal) or go on
OnError(a, fatal) ==
    /\ microtasks = <<>>
    /\ session[a] \in {"pending", "open", "closing"}
    /\ errCount < MaxErrors
    /\ errCount' = errCount + 1
    /\ session' = IF fatal THEN [session EXCEPT ![a] = "dead"] ELSE session
    /\ connectionStatus' = SetState(connectionStatus, "error")
    /\ errorDetails' = SetState(errorDetails, "connection lost")
    /\ lastOp' = Op("error", a)
    /\ UNCHANGED <<config, apiKey, mounted, sessionStatus, streamRef, audioContexts,
                   activeSessionRef, pc, isRetry, systemInstruction, decoding,
                   microtasks, clock, msgCount>>
    /\ UNCHANGED <<nextStartTime, sources, stopping, segments, epoch>>
    /\ UNCHANGED chatVars
    /\ UNCHANGED tapVars
    /\ UNCHANGED uiVars

\* callbacks.onclose
OnClose(a) ==
    /\ microtasks = <<>>
    /\ session[a] \in {"open", "closing"}
    /\ session' = [session EXCEPT ![a] = "dead"]
    /\ lastOp' = Op("close", a)
    /\ UNCHANGED <<config, apiKey, mounted, connectionStatus, sessionStatus,
                   errorDetails, streamRef, audioContexts, activeSessionRef, pc,
                   isRetry, systemInstruction, decoding, microtasks, clock, msgCount,
                   errCount>>
    /\ UNCHANGED <<nextStartTime, sources, stopping, segments, epoch>>
    /\ UNCHANGED chatVars
    /\ UNCHANGED tapVars
    /\ UNCHANGED uiVars

\* the parent unmounts the component: the cleanup of the mount effect
EndSession ==
    /\ microtasks = <<>>
    /\ mounted
    /\ mounted' = FALSE
    /\ frameInterval' = 0
    /\ animationLoops' = animationLoops \ {animationFrameRef}
    /\ session' = CloseSession(session, activeSessionRef)
    /\ activeSessionRef' = 0
    /\ audioContexts' = IF audioContexts = "running" THEN "closed" ELSE audioContexts
    /\ audioTaps' = {}
    /\ streamRef' = IF streamRef = "live" THEN "stopped" ELSE streamRef
    /\ lastOp' = Op("end", 0)
    /\ UNCHANGED <<config, apiKey, connectionStatus, sessionStatus, errorDetails,
                   animationFrameRef, pc, isRetry, systemInstruction, decoding,
                   microtasks, clock, msgCount, errCount>>
    /\ UNCHANGED <<nextStartTime, sources, stopping, segments, epoch>>
    /\ UNCHANGED chatVars
    /\ UNCHANGED uiVars

\* ------------------------------------------------------ inbound messages
\* nextStartTimeRef when a chunk arrives: Math.max(nextStartTimeRef, ctx.currentTime)
ScheduledStart(nst, now) == Max(nst, now)

AdvanceScheduleStuck(nst, dur) == nst

\* nextStartTimeRef after source.start: += audioBuffer.duration
AdvanceSchedule(nst, dur) == nst + dur

ClockKept(nst) == nst

\* nextStartTimeRef after an interruption
ClockAfterInterrupt(nst) == 0

OutputKept(out) == out

\* currentOutputTranscription after an interruption
OutputAfterInterrupt(out) == <<>>

MergeMindset(prev, args) ==
    [mood |-> args.mood,
     internal_thought |-> args.internal_thought,
     suggested_answer_tips |->
         IF args.suggested_answer_tips = Undefined
         THEN prev.suggested_answer_tips ELSE args.suggested_answer_tips,
     reference_answer_for_question |->
         IF args.reference_answer_for_question = Undefined
         THEN prev.reference_answer_for_question
         ELSE args.reference_answer_for_question,
     last_answer_feedback |->
         IF args.last_answer_feedback = NoFeedback
         THEN prev.last_answer_feedback ELSE args.last_answer_feedback]

\* setMindset(newMindset): the state after one update_mindset call
ApplyMindset(prev, args) == args

\* the mindset after the loop over the calls of one message
RECURSIVE MindsetAfter(_, _)
MindsetAfter(prev, calls) ==
    IF calls = <<>> THEN prev
    ELSE MindsetAfter(IF IsMindsetCall(Head(calls))
                      THEN ApplyMindset(prev, Head(calls).args)
                      ELSE prev,
                      Tail(calls))

\* onmessage, message.toolCall branch
OnToolCall(a, m) ==
    LET calls == m.calls
        base == Len(toolCallsSeen)
        mindsetCalls == SelectSeq(calls, IsMindsetCall)
        ids == [k \in 1..Len(calls) |-> base + k]
        acks == SelectSeq([k \in 1..Len(calls) |->
                              ToolResponse(a, ids[k], calls[k].name)],
                          IsMindsetCall)
    IN /\ toolCallsSeen' = toolCallsSeen \o
              [k \in 1..Len(calls) |->
                  [sess |-> a, id |-> ids[k], name |-> calls[k].name]]
       /\ mindset' = SetState(mindset, MindsetAfter(mindset, calls))
       /\ chatHistory' = SetState(chatHistory, InjectCoaching(chatHistory, calls, Now))
       /\ chatHistoryRef' = IF mounted /\ mindsetCalls # <<>>
                            THEN InjectCoaching(chatHistory, calls, Now)
                            ELSE chatHistoryRef
       /\ microtasks' = acks
       /\ lastOp' = Op("toolCall", a)
       /\ UNCHANGED <<sessionStatus, currentInputTranscription,
                      currentOutputTranscription, toolResponses, decoding>>
       /\ UNCHANGED <<nextStartTime, sources, stopping, segments, epoch>>

\* onmessage, message.serverContent branches up to the await of decodeAudioData
OnServerContent(a, m) ==
    LET hasOut == m.outputTranscription # Undefined
        hasIn == ~hasOut /\ m.inputTranscription # Undefined
        out1 == IF hasOut THEN currentOutputTranscription \o m.outputTranscription
                ELSE currentOutputTranscription
        in1 == IF hasIn THEN currentInputTranscription \o m.inputTranscription
               ELSE currentInputTranscription
        status1 == IF hasOut THEN "speaking"
                   ELSE IF hasIn THEN "listening" ELSE sessionStatus
        commit == m.turnComplete /\ (Trim(in1) # <<>> \/ Trim(out1) # <<>>)
        history2 == IF commit THEN chatHistory \o TurnCompleteTurns(in1, out1, Now)
                    ELSE chatHistory
        in2 == IF commit THEN <<>> ELSE in1
        out2 == IF commit THEN <<>> ELSE out1
        status2 == IF m.turnComplete THEN "listening" ELSE status1
        hasAudio == m.audio > 0 /\ audioContexts # "none"
        status3 == IF hasAudio THEN "speaking" ELSE status2
        interrupt == ~hasAudio /\ m.interrupted
    IN /\ Len(in1) <= MaxText
       /\ Len(out1) <= MaxText
       /\ chatHistory' = SetState(chatHistory, history2)
       /\ chatHistoryRef' = IF mounted /\ commit THEN history2 ELSE chatHistoryRef
       /\ currentInputTranscription' = in2
       /\ currentOutputTranscription' =
              IF interrupt THEN OutputAfterInterrupt(out2) ELSE out2
       /\ sessionStatus' = SetState(sessionStatus,
                                    IF interrupt THEN "listening" ELSE status3)
       /\ nextStartTime' = IF hasAudio THEN ScheduledStart(nextStartTime, clock)
                           ELSE IF interrupt THEN ClockAfterInterrupt(nextStartTime)
                           ELSE nextStartTime
       /\ decoding' = IF hasAudio
                      THEN Append(decoding, [dur |-> m.audio, sess |-> a,
                                             interrupted |-> m.interrupted])
                      ELSE decoding
       /\ sources' = IF interrupt THEN {} ELSE sources
       /\ stopping' = IF interrupt THEN stopping \cup sources ELSE stopping
       /\ epoch' = IF interrupt THEN epoch + 1 ELSE epoch
       /\ lastOp' = [op |-> "message", sess |-> a, turnComplete |-> m.turnComplete,
                     interrupted |-> interrupt, audio |-> hasAudio]
       /\ UNCHANGED <<mindset, toolCallsSeen, toolResponses, microtasks, segments>>

OnToolCallMessage(a, m) ==
    /\ microtasks = <<>>
    /\ session[a] \in {"open", "closing"}
    /\ msgCount.tool < MaxToolMsgs
    /\ msgCount' = [msgCount EXCEPT !.tool = @ + 1]
    /\ OnToolCall(a, m)
    /\ UNCHANGED <<config, apiKey, mounted, clock, errCount>>
    /\ UNCHANGED connVars
    /\ UNCHANGED tapVars
    /\ UNCHANGED uiVars

OnContentMessage(a, m) ==
    /\ microtasks = <<>>
    /\ session[a] \in {"open", "closing"}
    /\ HasText(m) \/ m.audio > 0 \/ m.interrupted
    /\ HasText(m) => msgCount.text < MaxTextMsgs
    /\ m.audio > 0 => msgCount.audio < MaxChunks
    /\ m.interrupted => msgCount.interrupted < MaxInterrupts
    /\ msgCount' = [text |-> msgCount.text + (IF HasText(m) THEN 1 ELSE 0),
                    audio |-> msgCount.audio + (IF m.audio > 0 THEN 1 ELSE 0),
                    interrupted |->
                        msgCount.interrupted + (IF m.interrupted THEN 1 ELSE 0),
                    tool |-> msgCount.tool]
    /\ OnServerContent(a, m)
    /\ UNCHANGED <<config, apiKey, mounted, clock, errCount>>
    /\ UNCHANGED connVars
    /\ UNCHANGED tapVars
    /\ UNCHANGED uiVars

\* payloads whose decoding fails with DecodeError
MalformedPayloads == {"bad length"}

\* onmessage for a message whose audio payload cannot be decoded: the handler
\* runs up to the decode, which throws, and the rest of it is skipped
OnMalformedAudio(a, payload) ==
    /\ microtasks = <<>>
    /\ session[a] \in {"open", "closing"}
    /\ payload \in MalformedPayloads
    /\ audioContexts # "none"
    /\ msgCount.audio < MaxChunks
    /\ msgCount' = [msgCount EXCEPT !.audio = @ + 1]
    /\ sessionStatus' = SetState(sessionStatus, "speaking")
    /\ nextStartTime' = ScheduledStart(nextStartTime, clock)
    /\ lastOp' = Op("malformed", a)
    /\ UNCHANGED <<config, apiKey, mounted, clock, errCount, sources, stopping,
                   decoding, segments, epoch, microtasks>>
    /\ UNCHANGED connVars
    /\ UNCHANGED tapVars
    /\ UNCHANGED chatVars
    /\ UNCHANGED uiVars

\* decodeAudioData suspends its handler pending an external result, each decode
\* an operation of its own: any pending one may resolve next, and other
\* callbacks run in between
PendingDecodes == 1..Len(decoding)

\* onmessage after decodeAudioData resolves: schedule the buffer, then the
\* interrupted branch of the same message
DecodeDone(i) ==
    LET d == decoding[i]
        id == Len(segments) + 1
        interrupt == d.interrupted
    IN /\ microtasks = <<>>
       /\ decoding' = SubSeq(decoding, 1, i - 1) \o SubSeq(decoding, i + 1, Len(decoding))
       /\ segments' = Append(segments, [start |-> nextStartTime, dur |-> d.dur,
                                        at |-> clock, epoch |-> epoch])
       /\ nextStartTime' =
              IF interrupt
              THEN ClockAfterInterrupt(AdvanceSchedule(nextStartTime, d.dur))
              ELSE AdvanceSchedule(nextStartTime, d.dur)
       /\ sources' = IF interrupt THEN {} ELSE sources \cup {id}
       /\ stopping' = IF interrupt THEN stopping \cup sources \cup {id} ELSE stopping
       /\ currentOutputTranscription' =
              IF interrupt THEN OutputAfterInterrupt(currentOutputTranscription)
              ELSE currentOutputTranscription
       /\ sessionStatus' = IF interrupt THEN SetState(sessionStatus, "listening")
                           ELSE sessionStatus
       /\ epoch' = IF interrupt THEN epoch + 1 ELSE epoch
       /\ lastOp' = [op |-> "decoded", sess |-> d.sess, turnComplete |-> FALSE,
                     interrupted |-> interrupt, audio |-> TRUE]
       /\ UNCHANGED <<config, apiKey, mounted, chatHistory, chatHistoryRef, mindset,
                      currentInputTranscription, toolCallsSeen, toolResponses,
                      microtasks, clock, msgCount, errCount>>
       /\ UNCHANGED connVars
       /\ UNCHANGED tapVars
       /\ UNCHANGED uiVars

\* the moment the output device finishes the segment
EndOf(seg) == Max(seg.start, seg.at) + seg.dur

SourceEndedAlwaysListening(id) ==
    /\ microtasks = <<>>
    /\ \/ id \in sources /\ clock >= EndOf(segments[id])
       \/ id \in stopping
    /\ sources' = sources \ {id}
    /\ stopping' = stopping \ {id}
    /\ sessionStatus' = SetState(sessionStatus, "listening")
    /\ lastOp' = Op("ended", 0)
    /\ UNCHANGED <<config, apiKey, mounted, chatHistory, chatHistoryRef, mindset,
                   currentInputTranscription, currentOutputTranscription,
                   toolCallsSeen, toolResponses, nextStartTime, decoding, segments,
                   epoch, microtasks, clock, msgCount, errCount>>
    /\ UNCHANGED connVars
    /\ UNCHANGED tapVars
    /\ UNCHANGED uiVars

\* the 'ended' listener of a source
SourceEnded(id) ==
    /\ microtasks = <<>>
    /\ \/ id \in sources /\ clock >= EndOf(segments[id])
       \/ id \in stopping
    /\ sources' = sources \ {id}
    /\ stopping' = stopping \ {id}
    /\ sessionStatus' = IF sources \ {id} = {} THEN SetState(sessionStatus, "listening")
                        ELSE sessionStatus
    /\ lastOp' = Op("ended", 0)
    /\ UNCHANGED <<config, apiKey, mounted, chatHistory, chatHistoryRef, mindset,
                   currentInputTranscription, currentOutputTranscription,
                   toolCallsSeen, toolResponses, nextStartTime, decoding, segments,
                   epoch, microtasks, clock, msgCount, errCount>>
    /\ UNCHANGED connVars
    /\ UNCHANGED tapVars
    /\ UNCHANGED uiVars

\* a promise reaction: sessionPromise.then(...) or the await of sessionPromise
RunMicrotask ==
    /\ microtasks # <<>>
    /\ LET t == Head(microtasks)
       IN /\ microtasks' = Tail(microtasks)
          /\ IF t.type = "resolve"
             THEN /\ activeSessionRef' = t.sess
                  /\ pc' = [pc EXCEPT ![t.sess] = "done"]
                  /\ UNCHANGED <<toolResponses, mediaSent>>
             ELSE IF t.type = "media"
             THEN /\ mediaSent' = IF session[t.sess] = "open" THEN mediaSent + 1
                                  ELSE mediaSent
                  /\ UNCHANGED <<activeSessionRef, pc, toolResponses>>
             ELSE /\ toolResponses' =
                         Append(toolResponses,
                                [sess |-> t.sess, id |-> t.id, name |-> t.name,
                                 response |-> "ok"])
                  /\ UNCHANGED <<activeSessionRef, pc, mediaSent>>
          /\ lastOp' = Op(t.type, t.sess)
    /\ UNCHANGED <<config, apiKey, mounted, connectionStatus, sessionStatus,
                   errorDetails, chatHistory, chatHistoryRef, mindset, streamRef,
                   audioContexts, currentInputTranscription,
                   currentOutputTranscription, isRetry, session, systemInstruction,
                   decoding, toolCallsSeen, clock, msgCount, errCount>>
    /\ UNCHANGED <<nextStartTime, sources, stopping, segments, epoch>>
    /\ UNCHANGED tapVars
    /\ UNCHANGED <<isMicOn, isMicOnRef, audioVolume, steeringInput, contentSent,
                   uiCount>>

\* time passes
Tick ==
    /\ microtasks = <<>>
    /\ clock < MaxClock
    /\ clock' = clock + 1
    /\ UNCHANGED <<config, apiKey, mounted, connectionStatus, sessionStatus,
                   errorDetails, chatHistory, chatHistoryRef, mindset, streamRef,
                   audioContexts, nextStartTime, sources, stopping, frameInterval,
                   animationLoops, animationFrameRef, audioTaps, activeSessionRef,
                   currentInputTranscription, currentOutputTranscription, pc, isRetry,
                   session, systemInstruction, decoding, microtasks, toolCallsSeen,
                   toolResponses, segments, epoch, msgCount, errCount, lastOp>>
    /\ UNCHANGED uiVars

\* ------------------------------------------------------------- controls
ToggleMicReconnecting ==
    /\ microtasks = <<>>
    /\ mounted
    /\ uiCount.toggles < MaxToggles
    /\ uiCount' = [uiCount EXCEPT !.toggles = @ + 1]
    /\ isMicOn' = ~isMicOn
    /\ isMicOnRef' = ~isMicOn
    /\ session' = CloseSession(session, activeSessionRef)
    /\ connectionStatus' = "connecting"
    /\ lastOp' = Op("toggleMic", 0)
    /\ UNCHANGED <<config, apiKey, mounted, sessionStatus, microtasks, clock,
                   msgCount, errCount, audioVolume, mediaSent, errorDetails,
                   activeSessionRef, pc, isRetry, systemInstruction, streamRef,
                   audioContexts>>
    /\ UNCHANGED <<tapVars, chatVars, playVars, steerVars>>

\* toggleMic: the microphone button
ToggleMic ==
    /\ microtasks = <<>>
    /\ mounted
    /\ uiCount.toggles < MaxToggles
    /\ uiCount' = [uiCount EXCEPT !.toggles = @ + 1]
    /\ isMicOn' = ~isMicOn
    /\ isMicOnRef' = ~isMicOn
    /\ lastOp' = Op("toggleMic", 0)
    /\ UNCHANGED <<config, apiKey, mounted, sessionStatus, microtasks, clock,
                   msgCount, errCount, audioVolume, mediaSent>>
    /\ UNCHANGED <<connVars, tapVars, chatVars, playVars, steerVars>>

\* sessionPromise.then(session => session.sendRealtimeInput({media})) of one frame
RealtimeInput(a) == [type |-> "media", sess |-> a, id |-> 0, name |-> ""]

CaptureEnabledAtOpen == TRUE

\* the test the tap makes first: isMicOnRef.current
CaptureEnabled == isMicOnRef

\* scriptProcessor.onaudioprocess of the tap that session a connected; the
\* sessionStatus the tap compares with is the one of the first render
AudioProcess(a, loud) ==
    /\ microtasks = <<>>
    /\ a \in audioTaps
    /\ audioContexts = "running"
    /\ uiCount.frames < MaxFrames
    /\ uiCount' = [uiCount EXCEPT !.frames = @ + 1]
    /\ IF CaptureEnabled
       THEN /\ audioVolume' = SetState(audioVolume, IF loud THEN 100 ELSE 0)
            /\ sessionStatus' = IF loud THEN SetState(sessionStatus, "listening")
                                ELSE sessionStatus
            /\ microtasks' = <<RealtimeInput(a)>>
       ELSE UNCHANGED <<audioVolume, sessionStatus, microtasks>>
    /\ lastOp' = Op("frame", a)
    /\ UNCHANGED <<config, apiKey, mounted, clock, msgCount, errCount, isMicOn,
                   isMicOnRef, mediaSent>>
    /\ UNCHANGED <<connVars, tapVars, chatVars, playVars, steerVars>>

\* texts the user may have typed in the steering input
SteeringTexts == {<<>>, <<" ">>, <<"t">>}

\* onChange of the steering input
TypeSteering(t) ==
    /\ microtasks = <<>>
    /\ mounted
    /\ uiCount.steers < MaxSteers
    /\ steeringInput # t
    /\ steeringInput' = t
    /\ lastOp' = Op("typed", 0)
    /\ UNCHANGED <<config, apiKey, mounted, sessionStatus, microtasks, clock,
                   msgCount, errCount, contentSent, uiCount>>
    /\ UNCHANGED <<connVars, tapVars, chatVars, playVars, micVars>>

\* the transcript text of a directive and the text sent to the model
DirectiveText(input) == <<"(directive) ">> \o input
ContentText(input) == <<"[System Instruction: ">> \o input \o <<"]">>

PrependTurn(prev, msg) == <<msg>> \o prev

\* [...prev, msg]
AppendTurn(prev, msg) == Append(prev, msg)

\* handleSteering: Enter in the steering input or its send button. A send on a
\* session that is no longer open is not delivered: it throws (thrown) and the
\* catch logs it, or the transport discards it.
HandleSteering(thrown) ==
    /\ microtasks = <<>>
    /\ mounted
    /\ uiCount.steers < MaxSteers
    /\ uiCount' = [uiCount EXCEPT !.steers = @ + 1]
    /\ IF Trim(steeringInput) = <<>> \/ activeSessionRef = 0
       THEN UNCHANGED <<chatHistory, contentSent, steeringInput>>
       ELSE LET delivered == session[activeSessionRef] = "open"
            IN /\ chatHistory' =
                      AppendTurn(chatHistory,
                                 ChatMessage("user", DirectiveText(steeringInput),
                                             Now, NoMeta))
               /\ contentSent' =
                      IF delivered
                      THEN Append(contentSent,
                                  [sess |-> activeSessionRef,
                                   text |-> ContentText(steeringInput)])
                      ELSE contentSent
               /\ steeringInput' = IF ~delivered /\ thrown THEN steeringInput
                                   ELSE <<>>
    /\ lastOp' = Op("steering", activeSessionRef)
    /\ UNCHANGED <<config, apiKey, mounted, sessionStatus, microtasks, clock,
                   msgCount, errCount, chatHistoryRef, mindset,
                   currentInputTranscription, currentOutputTranscription,
                   toolCallsSeen, toolResponses>>
    /\ UNCHANGED <<connVars, tapVars, playVars, micVars>>

Next ==
    \/ InitialConnect
    \/ RetryConnection
    \/ \E a \in Attempts : MediaGranted(a)
    \/ \E a \in Attempts : MediaDenied(a)
    \/ \E a \in Attempts : ConnectRejected(a)
    \/ \E a \in Attempts : OnOpen(a)
    \/ \E a \in Attempts, fatal \in BOOLEAN : OnError(a, fatal)
    \/ \E a \in Attempts : OnClose(a)
    \/ \E a \in Attempts, m \in ToolCallMessages : OnToolCallMessage(a, m)
    \/ \E a \in Attempts, m \in ContentMessages : OnContentMessage(a, m)
    \/ \E i \in PendingDecodes : DecodeDone(i)
    \/ \E id \in 1..Len(segments) : SourceEnded(id)
    \/ RunMicrotask
    \/ EndSession
    \/ Tick
    \/ ToggleMic
    \/ \E a \in Attempts, loud \in BOOLEAN : AudioProcess(a, loud)
    \/ \E t \in SteeringTexts : TypeSteering(t)
    \/ \E thrown \in BOOLEAN : HandleSteering(thrown)
    \/ \E a \in Attempts, payload \in MalformedPayloads : OnMalformedAudio(a, payload)

Spec == Init /\ [][Next]_vars

\* connection lifecycle alone: no inbound message
NextLifecycle ==
    \/ InitialConnect
    \/ RetryConnection
    \/ \E a \in Attempts : MediaGranted(a)
    \/ \E a \in Attempts : MediaDenied(a)
    \/ \E a \in Attempts : ConnectRejected(a)
    \/ \E a \in Attempts : OnOpen(a)
    \/ \E a \in Attempts, fatal \in BOOLEAN : OnError(a, fatal)
    \/ \E a \in Attempts : OnClose(a)
    \/ RunMicrotask
    \/ EndSession

SpecLifecycle == Init /\ [][NextLifecycle]_vars

\* one session that opens and stays open: the coaching tool calls
NextCoaching ==
    \/ InitialConnect
    \/ \E a \in Attempts : MediaGranted(a)
    \/ \E a \in Attempts : OnOpen(a)
    \/ \E a \in Attempts, m \in ToolCallMessages : OnToolCallMessage(a, m)
    \/ RunMicrotask
    \/ Tick

SpecCoaching == Init /\ [][NextCoaching]_vars

\* promise reactions run before the event loop takes its next task
SpecCoachingFair == SpecCoaching /\ WF_vars(RunMicrotask)

\* one session that opens and stays open: transcription and turn boundaries
NextTurns ==
    \/ InitialConnect
    \/ \E a \in Attempts : MediaGranted(a)
    \/ \E a \in Attempts : OnOpen(a)
    \/ \E a \in Attempts, m \in TextMessages : OnContentMessage(a, m)
    \/ RunMicrotask
    \/ Tick

SpecTurns == Init /\ [][NextTurns]_vars

\* one session that opens and stays open: audio chunks and interruptions
NextPlayback ==
    \/ InitialConnect
    \/ \E a \in Attempts : MediaGranted(a)
    \/ \E a \in Attempts : OnOpen(a)
    \/ \E a \in Attempts, m \in AudioMessages : OnContentMessage(a, m)
    \/ \E i \in PendingDecodes : DecodeDone(i)
    \/ \E id \in 1..Len(segments) : SourceEnded(id)
    \/ RunMicrotask
    \/ Tick

SpecPlayback == Init /\ [][NextPlayback]_vars

\* the connection lifecycle with the microphone button and the capture tap
NextMicrophone ==
    \/ InitialConnect
    \/ RetryConnection
    \/ \E a \in Attempts : MediaGranted(a)
    \/ \E a \in Attempts : OnOpen(a)
    \/ \E a \in Attempts, fatal \in BOOLEAN : OnError(a, fatal)
    \/ \E a \in Attempts : OnClose(a)
    \/ RunMicrotask
    \/ ToggleMic
    \/ \E a \in Attempts, loud \in BOOLEAN : AudioProcess(a, loud)

SpecMicrophone == Init /\ [][NextMicrophone]_vars

\* one open session whose turn-taking status is driven by audio chunks, the
\* end of playback and the capture tap
NextStatus ==
    \/ InitialConnect
    \/ \E a \in Attempts : MediaGranted(a)
    \/ \E a \in Attempts : OnOpen(a)
    \/ \E a \in Attempts, m \in AudioMessages : OnContentMessage(a, m)
    \/ \E a \in Attempts, payload \in MalformedPayloads : OnMalformedAudio(a, payload)
    \/ \E i \in PendingDecodes : DecodeDone(i)
    \/ \E id \in 1..Len(segments) : SourceEnded(id)
    \/ RunMicrotask
    \/ Tick
    \/ \E a \in Attempts, loud \in BOOLEAN : AudioProcess(a, loud)

SpecStatus == Init /\ [][NextStatus]_vars

\* the connection lifecycle with the steering input
NextSteering ==
    \/ InitialConnect
    \/ RetryConnection
    \/ \E a \in Attempts : MediaGranted(a)
    \/ \E a \in Attempts : OnOpen(a)
    \/ \E a \in Attempts, fatal \in BOOLEAN : OnError(a, fatal)
    \/ \E a \in Attempts : OnClose(a)
    \/ RunMicrotask
    \/ \E t \in SteeringTexts : TypeSteering(t)
    \/ \E thrown \in BOOLEAN : HandleSteering(thrown)

SpecSteering == Init /\ [][NextSteering]_vars

\* everything that writes the transcript, over fatal errors, retries and the
\* end of the session: tool messages of one call, content messages that carry
\* one thing, steering
\* a message that carries one thing only
OneField(m) ==
    Cardinality({f \in {"out", "in", "turn", "audio", "interrupted"} :
                    \/ f = "out" /\ m.outputTranscription # Undefined
                    \/ f = "in" /\ m.inputTranscription # Undefined
                    \/ f = "turn" /\ m.turnComplete
                    \/ f = "audio" /\ m.audio > 0
                    \/ f = "interrupted" /\ m.interrupted}) = 1

SingleCallMessages ==
    {m \in ToolCallMessages : Len(m.calls) = 1 /\ m.calls[1] \in FollowUpCalls}

OneFieldMessages ==
    {m \in ContentMessages :
        /\ m.audio = 0
        /\ m.outputTranscription # <<" ">>
        /\ m.inputTranscription # <<" ">>
        /\ OneField(m)}

\* what a message may carry next to a tool call: one fragment, a turn
\* boundary, an audio chunk or an interruption
CarriedContent ==
    {m \in ContentMessages :
        /\ m.audio \in {0, MaxDur}
        /\ m.outputTranscription # <<" ">>
        /\ m.inputTranscription # <<" ">>
        /\ OneField(m)}

\* a message that carries a tool call together with server content
MixedMessages ==
    {[kind |-> "toolCall", calls |-> <<c>>,
      outputTranscription |-> m.outputTranscription,
      inputTranscription |-> m.inputTranscription,
      turnComplete |-> m.turnComplete,
      audio |-> m.audio,
      interrupted |-> m.interrupted] : c \in FollowUpCalls, m \in CarriedContent}

InboundMessages == MixedMessages \cup OneFieldMessages

HasToolCallIgnored(m) == FALSE

\* if (message.toolCall)
HasToolCall(m) == "calls" \in DOMAIN m

\* callbacks.onmessage: the tool branch ends with return, so the content
\* branches run only for a message without a tool call
OnMessage(a, m) ==
    IF HasToolCall(m) THEN OnToolCallMessage(a, m) ELSE OnContentMessage(a, m)

\* one session that opens and stays open: messages of either kind, and
\* messages that carry both
NextDispatch ==
    \/ InitialConnect
    \/ \E a \in Attempts : MediaGranted(a)
    \/ \E a \in Attempts : OnOpen(a)
    \/ \E a \in Attempts, m \in InboundMessages : OnMessage(a, m)
    \/ RunMicrotask

SpecDispatch == Init /\ [][NextDispatch]_vars

EventCount ==
    msgCount.tool + msgCount.text + msgCount.interrupted + errCount + uiCount.steers

NextTranscript ==
    \/ InitialConnect
    \/ RetryConnection
    \/ \E a \in Attempts : MediaGranted(a)
    \/ \E a \in Attempts : OnOpen(a)
    \/ \E a \in Attempts : EventCount < MaxEvents /\ OnError(a, TRUE)
    \/ \E a \in Attempts, m \in SingleCallMessages :
           EventCount < MaxEvents /\ OnToolCallMessage(a, m)
    \/ \E a \in Attempts, m \in OneFieldMessages :
           EventCount < MaxEvents /\ OnContentMessage(a, m)
    \/ \E t \in SteeringTexts : t # <<" ">> /\ TypeSteering(t)
    \/ \E thrown \in BOOLEAN : EventCount < MaxEvents /\ HandleSteering(thrown)
    \/ RunMicrotask
    \/ EndSession

SpecTranscript == Init /\ [][NextTranscript]_vars

\* ------------------------------------------- the instruction builder
\* transcripts of up to MaxHistory turns, in five shapes of roles
Shapes == 1..5
RoleAt(shape, i) ==
    CASE shape = 1 -> IF i % 2 = 1 THEN "user" ELSE "model"
      [] shape = 2 -> IF i % 5 = 1 THEN "coach-feedback"
                      ELSE IF i % 5 = 2 THEN "coach-reference"
                      ELSE IF i % 5 = 3 THEN "coach-hint"
                      ELSE IF i % 5 = 4 THEN "model" ELSE "user"
      [] shape = 3 -> "coach-hint"
      [] shape = 4 -> IF i % 3 = 0 THEN "coach-feedback"
                      ELSE IF i % 2 = 0 THEN "model" ELSE "user"
      [] OTHER -> IF i % 10 = 0 THEN "coach-reference"
                  ELSE IF i % 2 = 1 THEN "user" ELSE "model"
\* a text that names its turn: i in binary, "a" for 0 and "b" for 1
TextAt(i) == [k \in 1..5 |-> IF (i \div (2 ^ (k - 1))) % 2 = 1 THEN "b" ELSE "a"]
TranscriptOf(shape, n) ==
    [i \in 1..n |-> ChatMessage(RoleAt(shape, i), TextAt(i), i, NoMeta)]
Transcripts == {TranscriptOf(shape, n) : shape \in Shapes, n \in 0..MaxHistory}

\* the component with a transcript: just mounted, or after its session dropped
InitReplay ==
    /\ InitControls
    /\ config \in Personas
    /\ apiKey = TRUE
    /\ mounted = TRUE
    /\ chatHistory \in Transcripts
    /\ chatHistoryRef = chatHistory
    /\ sessionStatus = "listening"
    /\ nextStartTime = 0
    /\ sources = {}
    /\ stopping = {}
    /\ currentInputTranscription = <<>>
    /\ currentOutputTranscription = <<>>
    /\ isRetry = [a \in Attempts |-> FALSE]
    /\ decoding = <<>>
    /\ microtasks = <<>>
    /\ toolCallsSeen = <<>>
    /\ toolResponses = <<>>
    /\ segments = <<>>
    /\ clock = 0
    /\ epoch = 0
    /\ msgCount = [tool |-> 0, text |-> 0, audio |-> 0, interrupted |-> 0]
    /\ \/ /\ connectionStatus = "initializing"
          /\ errorDetails = "null"
          /\ mindset = InitialMindset
          /\ streamRef = "none"
          /\ audioContexts = "none"
          /\ frameInterval = 0
          /\ animationLoops = {}
          /\ animationFrameRef = 0
          /\ audioTaps = {}
          /\ activeSessionRef = 0
          /\ pc = [a \in Attempts |-> "unused"]
          /\ session = [a \in Attempts |-> "none"]
          /\ systemInstruction = [a \in Attempts |-> NoInstruction]
          /\ errCount = 0
          /\ lastOp = Op("init", 0)
       \/ /\ connectionStatus = "error"
          /\ errorDetails = "connection lost"
          /\ mindset = [InitialMindset EXCEPT !.internal_thought = "starting"]
          /\ streamRef = "live"
          /\ audioContexts = "running"
          /\ frameInterval = 1
          /\ animationLoops = {1}
          /\ animationFrameRef = 1
          /\ audioTaps = {1}
          /\ activeSessionRef = 1
          /\ pc = [a \in Attempts |-> IF a = 1 THEN "done" ELSE "unused"]
          /\ session = [a \in Attempts |-> IF a = 1 THEN "dead" ELSE "none"]
          /\ systemInstruction =
                 [a \in Attempts |->
                     IF a = 1 THEN FinalSystemInstruction(FALSE, config, <<>>)
                     ELSE NoInstruction]
          /\ errCount = 1
          /\ lastOp = Op("error", 1)

NextReplay ==
    \/ InitialConnect
    \/ RetryConnection
    \/ \E a \in Attempts : MediaGranted(a)

SpecReplay == InitReplay /\ [][NextReplay]_vars

\* ================================================================ claims

\* C1: two segments scheduled one after the other with no interruption between
\* them never overlap: the later one starts at or after the earlier one's start
\* plus its duration, and exactly there unless the output clock had already
\* passed that point when the later one was scheduled.
C1_NoOverlap ==
    \A i \in 1..(Len(segments) - 1) :
        LET prev == segments[i]
            next == segments[i + 1]
        IN prev.epoch = next.epoch =>
               /\ next.start >= prev.start + prev.dur
               /\ next.at <= prev.start + prev.dur => next.start = prev.start + prev.dur

\* two chunks of one utterance played back to back, the second scheduled while
\* the first was playing
C1_Witness ==
    /\ Len(segments) = 2
    /\ segments[1].epoch = segments[2].epoch
    /\ segments[1].dur > 0
    /\ segments[2].dur > 0
    /\ segments[2].start = segments[1].start + segments[1].dur
    /\ segments[2].at > segments[1].start

\* C2: right after an interrupted signal is handled, no playback handle is live
\* and nextStartTime is 0, however many segments were scheduled or playing.
C2_InterruptResets ==
    lastOp.interrupted => sources = {} /\ nextStartTime = 0

\* an interruption that stopped two live segments
C2_Witness ==
    /\ lastOp.interrupted
    /\ Cardinality(stopping) >= 2
    /\ sources = {}
    /\ nextStartTime = 0

\* C3: at most one transport session is open at any time, over any sequence of
\* connects, transport errors and user retries.
C3_AtMostOneOpen ==
    Cardinality({a \in Attempts : session[a] = "open"}) <= 1

\* C4: every update_mindset call delivered on a session is eventually answered
\* by exactly one tool response with that call's id and name and the payload
\* "ok", made on the delivering session, and never by more than one.
CallIds == 1..(2 * MaxToolMsgs)
MindsetCallSeen(c) ==
    \E k \in 1..Len(toolCallsSeen) :
        toolCallsSeen[k].id = c /\ toolCallsSeen[k].name = "update_mindset"
ResponsesTo(c) == {k \in 1..Len(toolResponses) : toolResponses[k].id = c}
AnsweredOnce(c) ==
    /\ Cardinality(ResponsesTo(c)) = 1
    /\ \A k \in ResponsesTo(c) :
           /\ toolResponses[k].response = "ok"
           /\ \E j \in 1..Len(toolCallsSeen) :
                  /\ toolCallsSeen[j].id = c
                  /\ toolCallsSeen[j].sess = toolResponses[k].sess
                  /\ toolCallsSeen[j].name = toolResponses[k].name
C4_EveryCallAcknowledged ==
    \A c \in CallIds :
        /\ MindsetCallSeen(c) ~> AnsweredOnce(c)
        /\ [](Cardinality(ResponsesTo(c)) <= 1)

\* both calls of one message answered
C4_Witness ==
    /\ MindsetCallSeen(1) /\ MindsetCallSeen(2)
    /\ AnsweredOnce(1) /\ AnsweredOnce(2)

\* C5: an update_mindset call that carries only mood and internal_thought
\* appends no turn to the transcript, replaces the mindset by its arguments and
\* has its acknowledgment sent.
BareArgs(args) ==
    /\ args.suggested_answer_tips = Undefined
    /\ args.reference_answer_for_question = Undefined
    /\ args.last_answer_feedback = NoFeedback
C5_BareCallStep ==
    \A a \in Attempts, m \in ToolCallMessages :
        (/\ Len(m.calls) = 1
         /\ IsMindsetCall(m.calls[1])
         /\ BareArgs(m.calls[1].args)
         /\ OnToolCallMessage(a, m))
        => /\ chatHistory' = chatHistory
           /\ chatHistoryRef' = chatHistory
           /\ mindset' = m.calls[1].args
           /\ microtasks' = <<[type |-> "toolResponse", sess |-> a,
                               id |-> Len(toolCallsSeen) + 1,
                               name |-> "update_mindset"]>>
C5_ResponseStep ==
    (microtasks # <<>> /\ Head(microtasks).type = "toolResponse")
    => toolResponses' =
           Append(toolResponses,
                  [sess |-> Head(microtasks).sess, id |-> Head(microtasks).id,
                   name |-> Head(microtasks).name, response |-> "ok"])
C5_BareCallAppendsNothing == [][C5_BareCallStep /\ C5_ResponseStep]_vars

\* a bare call handled and answered: mindset replaced, transcript still empty
C5_Witness ==
    /\ Len(toolCallsSeen) = 1
    /\ BareArgs(mindset) /\ mindset.internal_thought = "thinking"
    /\ chatHistory = <<>>
    /\ AnsweredOnce(1)

\* C6: one update_mindset call appends exactly one turn per coaching field it
\* carries (a non-empty string), in the order coach-feedback, coach-reference,
\* coach-hint, each with the field's text, with strictly increasing timestamps.
CoachRank(role) == CASE role = "coach-feedback" -> 1
                     [] role = "coach-reference" -> 2
                     [] role = "coach-hint" -> 3
                     [] OTHER -> 0
CoachField(role, args) ==
    CASE role = "coach-feedback" -> args.last_answer_feedback.advice
      [] role = "coach-reference" -> args.reference_answer_for_question
      [] role = "coach-hint" -> args.suggested_answer_tips
      [] OTHER -> Undefined
Carried(role, args) == CoachField(role, args) \notin {Undefined, <<>>}
C6_CoachingStep ==
    \A a \in Attempts, m \in ToolCallMessages :
        (/\ Len(m.calls) = 1
         /\ IsMindsetCall(m.calls[1])
         /\ OnToolCallMessage(a, m))
        => LET args == m.calls[1].args
               old == Len(chatHistory)
               added == SubSeq(chatHistory', old + 1, Len(chatHistory'))
           IN /\ SubSeq(chatHistory', 1, old) = chatHistory
              /\ \A role \in {"coach-feedback", "coach-reference", "coach-hint"} :
                     Cardinality({i \in 1..Len(added) : added[i].role = role})
                         = IF Carried(role, args) THEN 1 ELSE 0
              /\ \A i \in 1..Len(added) :
                     /\ CoachRank(added[i].role) > 0
                     /\ added[i].text = CoachField(added[i].role, args)
              /\ \A i \in 1..Len(added), j \in 1..Len(added) :
                     i < j => /\ CoachRank(added[i].role) < CoachRank(added[j].role)
                              /\ added[i].timestamp < added[j].timestamp
C6_CoachingOrder == [][C6_CoachingStep]_vars

\* a call carrying all three fields, handled after the clock moved
C6_Witness ==
    /\ Len(toolCallsSeen) = 1
    /\ Len(chatHistory) = 3
    /\ chatHistory[1].role = "coach-feedback"
    /\ chatHistory[2].role = "coach-reference"
    /\ chatHistory[3].role = "coach-hint"
    /\ chatHistory[1].timestamp > 0
    /\ chatHistory[1].timestamp < chatHistory[2].timestamp
    /\ chatHistory[2].timestamp < chatHistory[3].timestamp

\* C7: a turnComplete appends one turn per accumulator that holds a
\* non-whitespace character: the candidate turn before the interviewer turn,
\* each with the accumulated text; none when both are empty or blank.
NonBlank(text) == \E i \in 1..Len(text) : text[i] # " "
Accumulated(pending, fragment) ==
    IF fragment = Undefined THEN pending ELSE pending \o fragment
C7_TurnCompleteStep ==
    \A a \in Attempts, m \in TextMessages :
        (/\ m.turnComplete
         /\ m.outputTranscription = Undefined \/ m.inputTranscription = Undefined
         /\ OnContentMessage(a, m))
        => LET userText ==
                   Accumulated(currentInputTranscription, m.inputTranscription)
               modelText ==
                   Accumulated(currentOutputTranscription, m.outputTranscription)
               old == Len(chatHistory)
               added == SubSeq(chatHistory', old + 1, Len(chatHistory'))
               n == (IF NonBlank(userText) THEN 1 ELSE 0)
                        + (IF NonBlank(modelText) THEN 1 ELSE 0)
           IN /\ SubSeq(chatHistory', 1, old) = chatHistory
              /\ Len(added) = n
              /\ NonBlank(userText) =>
                     added[1].role = "user" /\ added[1].text = userText
              /\ NonBlank(modelText) =>
                     added[n].role = "model" /\ added[n].text = modelText
C7_TurnCompleteAppends == [][C7_TurnCompleteStep]_vars

\* a turn boundary that committed both sides, candidate first
C7_Witness ==
    /\ lastOp.turnComplete
    /\ Len(chatHistory) = 2
    /\ chatHistory[1].role = "user" /\ chatHistory[2].role = "model"
    /\ chatHistory[1].timestamp = chatHistory[2].timestamp

\* C8: after every turnComplete both pending-transcription accumulators are
\* empty, whatever they held before.
C8_AccumulatorsCleared ==
    lastOp.turnComplete =>
        currentInputTranscription = <<>> /\ currentOutputTranscription = <<>>

\* C9 as claimed: on a retry the replay context holds exactly the most recent
\* min(n, 20) turns of the n-turn transcript, oldest first, one line per turn.
C9_LastTurnsOfAnyRole ==
    \A a \in Attempts :
        (isRetry[a] /\ systemInstruction[a] # NoInstruction) =>
            LET n == Len(chatHistoryRef)
                k == Min(n, ReplayTurns)
                lines == systemInstruction[a].transcript
            IN /\ Len(lines) = k
               /\ \A j \in 1..k : lines[j][3] = chatHistoryRef[n - k + j].text

\* C9 as amended: on a retry the replay context holds exactly the most recent
\* min(m, 20) of the m candidate/interviewer turns of the transcript (coaching
\* turns are skipped and not counted), oldest first, one "Candidate: text" or
\* "Interviewer: text" line per turn; nothing is appended for an empty
\* transcript.
SpokenAt == {i \in 1..Len(chatHistoryRef) : chatHistoryRef[i].role \in {"user", "model"}}
SpokenAfter(i) == Cardinality({j \in SpokenAt : j > i})
C9_LastSpokenTurns ==
    \A a \in Attempts :
        (isRetry[a] /\ systemInstruction[a] # NoInstruction) =>
            LET k == Min(Cardinality(SpokenAt), ReplayTurns)
                lines == systemInstruction[a].transcript
            IN /\ Len(lines) = k
               /\ systemInstruction[a].restored = (chatHistoryRef # <<>>)
               /\ \A i \in SpokenAt :
                      SpokenAfter(i) < ReplayTurns =>
                          lines[k - SpokenAfter(i)] =
                              <<IF chatHistoryRef[i].role = "user" THEN "Candidate"
                                ELSE "Interviewer",
                                ": ", chatHistoryRef[i].text>>

\* a retry over a transcript with more than 20 spoken turns and coaching turns
\* among its last 20
C9_Witness ==
    \E a \in Attempts :
        /\ isRetry[a] /\ systemInstruction[a] # NoInstruction
        /\ Cardinality(SpokenAt) > ReplayTurns
        /\ Len(chatHistoryRef) = 25
        /\ \E i \in 6..25 : i \notin SpokenAt
        /\ Len(systemInstruction[a].transcript) = ReplayTurns

\* C10: the instruction a non-retry attempt passes to connect is the persona
\* instruction alone, whatever the transcript holds; only a retry's instruction
\* carries the reconnect block.
C10_FreshStartVerbatim ==
    \A a \in Attempts :
        systemInstruction[a] # NoInstruction =>
            /\ systemInstruction[a].persona = config
            /\ ~isRetry[a] =>
                   /\ ~systemInstruction[a].restored
                   /\ systemInstruction[a].transcript = <<>>
            /\ systemInstruction[a].restored => isRetry[a]

\* a first connect made over a non-empty transcript
C10_Witness ==
    \E a \in Attempts :
        /\ ~isRetry[a]
        /\ session[a] = "pending"
        /\ Len(chatHistoryRef) > 0
        /\ systemInstruction[a] = [persona |-> config, restored |-> FALSE,
                                   transcript |-> <<>>]

\* C11: an unexpected closed event (the session was open, the component is
\* mounted and the code did not close the handle) received while connected puts
\* the connection state in error with a detail recorded.
C11_UnexpectedCloseIsError ==
    [][\A a \in Attempts :
          (OnClose(a) /\ mounted /\ session[a] = "open"
                      /\ connectionStatus = "connected")
              => connectionStatus' = "error" /\ errorDetails' # "null"]_vars

\* some transport failure has happened: an error event or a rejected connect
TransportFailed ==
    \/ errCount > 0
    \/ \E a \in Attempts : pc[a] = "failed" /\ session[a] = "dead"

\* C12: reconnecting is entered only by the user's retry, from the error state,
\* after a transport failure.
C12_ReconnectOnlyAfterTransportFailure ==
    [][(connectionStatus' = "reconnecting" /\ connectionStatus # "reconnecting")
          => RetryConnection /\ connectionStatus = "error" /\ TransportFailed]_vars

\* C16: once the session was ended no transport session is open.
C16_NoOpenHandleAfterEnd ==
    ~mounted => \A a \in Attempts : session[a] # "open"

\* C17: in the error state a non-empty detail is recorded, and a call of
\* connectToGemini that starts an attempt clears the detail.
C17_ErrorHasDetail ==
    /\ [](connectionStatus = "error" => errorDetails \notin {"null", ""})
    /\ [][\A retry \in BOOLEAN :
             (ConnectToGemini(retry) /\ apiKey)
                 => /\ errorDetails' = "null"
                    /\ connectionStatus' =
                           IF retry THEN "reconnecting" ELSE "connecting"]_vars

\* a retry that cleared the detail of a transport error
C17_Witness ==
    /\ lastOp.op = "connect"
    /\ connectionStatus = "reconnecting"
    /\ errorDetails = "null"
    /\ errCount > 0

\* C13: a click on the microphone button changes the capture-enabled flag and
\* nothing of the connection: not the connection state, not a transport session,
\* not the handle, and it starts no connection attempt.
C13_ToggleKeepsConnection ==
    [][ToggleMic => /\ UNCHANGED connVars
                    /\ UNCHANGED <<chatVars, playVars, tapVars, sessionStatus>>
                    /\ isMicOnRef' = ~isMicOnRef
                    /\ isMicOn' = isMicOnRef']_vars

\* the second click, made during a reconnect after clicks in other states
C13_Witness ==
    /\ lastOp.op = "toggleMic"
    /\ uiCount.toggles = 2
    /\ connectionStatus = "reconnecting"
    /\ \E a \in Attempts : session[a] = "open"

\* C14: a frame that fires while the flag is off queues no chunk and sends none;
\* a frame that fires while it is on queues one chunk for its session, and the
\* open session receives it; none of this touches the connection.
C14_TapReadsCurrentFlag ==
    /\ [][\A a \in Attempts, loud \in BOOLEAN :
             AudioProcess(a, loud)
                 => /\ microtasks' = IF isMicOnRef THEN <<RealtimeInput(a)>> ELSE <<>>
                    /\ mediaSent' = mediaSent
                    /\ UNCHANGED connVars]_vars
    /\ [][(RunMicrotask /\ Head(microtasks).type = "media")
             => /\ mediaSent' = IF session[Head(microtasks).sess] = "open"
                                THEN mediaSent + 1 ELSE mediaSent
                /\ UNCHANGED connVars]_vars

\* flag off, a frame that sent nothing, flag on again, a frame that was sent:
\* all on the first session
C14_Witness ==
    /\ lastOp.op = "media"
    /\ uiCount = [frames |-> 2, toggles |-> 2, steers |-> 0]
    /\ mediaSent = 1
    /\ isMicOnRef
    /\ \A a \in Attempts : a > 1 => pc[a] = "unused"

\* C15: steering submitted while connected with a non-blank text appends one
\* directive turn and transmits one content message; submitted in any other
\* connection state it appends nothing and transmits nothing.
C15_SteeringOnlyWhileConnected ==
    [][\A thrown \in BOOLEAN :
          HandleSteering(thrown)
              => IF connectionStatus = "connected"
                 THEN Trim(steeringInput) # <<>>
                          => /\ Len(chatHistory') = Len(chatHistory) + 1
                             /\ Len(contentSent') = Len(contentSent) + 1
                 ELSE UNCHANGED <<chatHistory, contentSent>>]_vars

IsDirective(m) == m.role = "user" /\ m.text # <<>> /\ m.text[1] = "(directive) "

\* C19: every directive turn of the transcript has its content message
\* transmitted on the transport.
C19_DirectiveTransmitted ==
    Len(SelectSeq(chatHistory, IsDirective)) = Len(contentSent)

IsPrefix(s, t) == Len(s) <= Len(t) /\ SubSeq(t, 1, Len(s)) = s

\* C18: every step leaves the transcript it found as a prefix of the transcript
\* it leaves, for the rendered transcript and for the snapshot the callbacks
\* keep: no turn is removed, reordered or modified.
C18_TranscriptAppendOnly ==
    [][/\ IsPrefix(chatHistory, chatHistory')
       /\ IsPrefix(chatHistoryRef, chatHistoryRef')]_vars

\* a transcript with a coaching turn, a spoken turn and a directive, the last
\* one appended after an error and a retry
C18_Witness ==
    /\ Len(chatHistory) >= 3
    /\ \E i \in 1..Len(chatHistory) : chatHistory[i].role = "coach-hint"
    /\ \E i \in 1..Len(chatHistory) :
           IsSpoken(chatHistory[i]) /\ ~IsDirective(chatHistory[i])
    /\ IsDirective(chatHistory[Len(chatHistory)])
    /\ lastOp.op = "steering"
    /\ errCount > 0
    /\ \E a \in Attempts : isRetry[a] /\ session[a] = "open"

\* C20: a message is handled only when every effect of the messages before it
\* has been applied (no audio of an earlier message still waits to be
\* scheduled), and audio is scheduled in the order of arrival.
C20_HandledInArrivalOrder ==
    /\ [][\A a \in Attempts, m \in AudioMessages :
             OnContentMessage(a, m) => decoding = <<>>]_vars
    /\ [][\A i \in PendingDecodes : DecodeDone(i) => i = 1]_vars

\* C21: in the error state the audio tap, the video-frame timer and the
\* animation loop are cancelled and no transport session is open.
C21_ErrorStopsTaps ==
    connectionStatus = "error"
        => /\ audioTaps = {}
           /\ frameInterval = 0
           /\ animationLoops = {}
           /\ \A a \in Attempts : session[a] # "open"

\* a retry has started an attempt newer than a
Superseded(a) == \E b \in Attempts : b > a /\ isRetry[b] /\ pc[b] # "unused"

\* C30: an error, an open or a close delivered by a session that a retry has
\* superseded changes neither the connection state nor its detail.
C30_SupersededCallbacksInert ==
    [][\A a \in Attempts :
          (Superseded(a)
             /\ \/ \E fatal \in BOOLEAN : OnError(a, fatal)
                \/ OnOpen(a)
                \/ OnClose(a))
              => UNCHANGED <<connectionStatus, errorDetails, sessionStatus, mindset>>]_vars

\* C22: the media stream and the audio contexts are created only when none
\* exists yet, are kept by every later connection attempt, and are stopped or
\* closed only by the step that ends the session.
C22_SharedResourcesSingletons ==
    [][/\ \A a \in Attempts : MediaGranted(a) => streamRef = "none"
       /\ streamRef # "none" => streamRef' # "none"
       /\ audioContexts # "none" => audioContexts' # "none"
       /\ (audioContexts' = "running" /\ audioContexts # "running")
              => audioContexts = "none"
       /\ (streamRef = "live" /\ streamRef' # "live")
              => (mounted /\ ~mounted' /\ streamRef' = "stopped")
       /\ (audioContexts = "running" /\ audioContexts' # "running")
              => (mounted /\ ~mounted' /\ audioContexts' = "closed")
       /\ (\E r \in BOOLEAN : ConnectToGemini(r))
              => (streamRef # "none" => pc' # pc /\ \A a \in Attempts : pc'[a] # "media")]_vars

\* a retry after a transport error has issued its connect with the stream and
\* the contexts of the first attempt
C22_Witness ==
    /\ mounted
    /\ errCount > 0
    /\ \E a \in Attempts : isRetry[a] /\ pc[a] = "opening" /\ lastOp = Op("connect", a)
    /\ streamRef = "live"
    /\ audioContexts = "running"

\* C25: a connection attempt without a credential sets the error state and
\* its detail and changes nothing else: no attempt is started, no transport is
\* opened, no audio context or media stream is created, no handle is closed.
C25_MissingKeyOnlyReports ==
    [][\A r \in BOOLEAN :
          (ConnectToGemini(r) /\ ~apiKey)
              => /\ mounted => connectionStatus' = "error" /\ errorDetails' # "null"
                 /\ UNCHANGED <<pc, session, activeSessionRef, systemInstruction,
                                streamRef, audioContexts, isRetry>>]_vars

\* a retry made without a credential has ended in the error state again
C25_Witness ==
    /\ ~apiKey
    /\ mounted
    /\ connectionStatus = "error"
    /\ errorDetails = "API Key missing"
    /\ lastOp = Op("connect", 0)
    /\ \A a \in Attempts : pc[a] = "unused" /\ session[a] = "none"
    /\ streamRef = "none"
    /\ audioContexts = "none"

\* C26: when getUserMedia fails the attempt ends in the error state with a
\* detail and without a transport, and that attempt never gets one later.
C26_MediaFailureNeverConnects ==
    [][/\ \A a \in Attempts :
             MediaDenied(a)
                 => /\ mounted => connectionStatus' = "error" /\ errorDetails' # "null"
                    /\ pc'[a] = "failed"
                    /\ session'[a] = "none"
       /\ \A a \in Attempts :
             (pc[a] = "failed" /\ session[a] = "none")
                 => (pc'[a] = "failed" /\ session'[a] = "none")]_vars

\* getUserMedia of a retry has failed after the first attempt failed the same way
C26_Witness ==
    /\ mounted
    /\ connectionStatus = "error"
    /\ \E a \in Attempts : isRetry[a] /\ lastOp = Op("mediaDenied", a)
                             /\ pc[a] = "failed" /\ session[a] = "none"
    /\ \A a \in Attempts : session[a] = "none"

\* C24: when a playback source ends, the status becomes listening if no
\* source is left in the set, and is left as it was if another source remains.
C24_LastSourceEndSetsListening ==
    [][\A id \in DOMAIN segments :
          SourceEnded(id)
              => IF sources \ {id} = {}
                 THEN sessionStatus' = "listening"
                 ELSE sessionStatus' = sessionStatus]_vars

\* a source has ended while a later one is still in the set, and the status
\* is still speaking
C24_Witness ==
    /\ lastOp = Op("ended", 0)
    /\ sources # {}
    /\ stopping = {}
    /\ Len(segments) = 2
    /\ sessionStatus = "speaking"

\* C23: a loud audio frame that fires while the status is speaking leaves the
\* status speaking.
C23_LoudFrameKeepsSpeaking ==
    [][\A a \in Attempts :
          (AudioProcess(a, TRUE) /\ sessionStatus = "speaking")
              => sessionStatus' = "speaking"]_vars

\* C27: a message whose audio payload cannot be decoded leaves the connection
\* state, the playback set, the scheduling clock and the status as they were.
C27_MalformedAudioDropped ==
    [][\A a \in Attempts, payload \in MalformedPayloads :
          OnMalformedAudio(a, payload)
              => UNCHANGED <<connectionStatus, sources, segments, nextStartTime,
                             sessionStatus>>]_vars

\* C28: the timestamps of the transcript never decrease from one turn to the
\* next in append order.
C28_TimestampsMonotonic ==
    \A i, j \in DOMAIN chatHistory :
        i < j => chatHistory[i].timestamp <= chatHistory[j].timestamp

\* C29: after a message with update_mindset calls the mindset is the
\* arguments of the last such call, and every optional field those arguments
\* omit is absent from the mindset, whatever it was before.
LastMindsetArgs(m) ==
    LET mc == SelectSeq(m.calls, IsMindsetCall) IN mc[Len(mc)].args
C29_MindsetReplacedWholesale ==
    [][\A a \in Attempts, m \in ToolCallMessages :
          (/\ mounted
           /\ \E k \in DOMAIN m.calls : IsMindsetCall(m.calls[k])
           /\ OnToolCallMessage(a, m))
              => /\ mindset' = LastMindsetArgs(m)
                 /\ LastMindsetArgs(m).suggested_answer_tips = Undefined
                        => mindset'.suggested_answer_tips = Undefined
                 /\ LastMindsetArgs(m).reference_answer_for_question = Undefined
                        => mindset'.reference_answer_for_question = Undefined
                 /\ LastMindsetArgs(m).last_answer_feedback = NoFeedback
                        => mindset'.last_answer_feedback = NoFeedback]_vars

\* one message with two update_mindset calls: the first carried tips, a
\* reference answer and feedback, the second none of them, and none is left
C29_Witness ==
    /\ Len(toolCallsSeen) = 2
    /\ \A k \in 1..2 : toolCallsSeen[k].name = "update_mindset"
    /\ \E k \in DOMAIN chatHistory : chatHistory[k].role = "coach-hint"
    /\ \E k \in DOMAIN chatHistory : chatHistory[k].role = "coach-reference"
    /\ \E k \in DOMAIN chatHistory : chatHistory[k].role = "coach-feedback"
    /\ mindset.suggested_answer_tips = Undefined
    /\ mindset.reference_answer_for_question = Undefined
    /\ mindset.last_answer_feedback = NoFeedback

\* C31: a chunk whose decode was pending when an interruption was handled is
\* not started when the decode completes: the playback set stays empty and
\* the scheduling clock stays 0.
C31_InFlightAudioDiscarded ==
    [][\A i \in PendingDecodes :
          (lastOp.op = "message" /\ lastOp.interrupted /\ DecodeDone(i))
              => /\ sources' = {}
                 /\ nextStartTime' = 0]_vars

\* C32: the transcript snapshot read when the reconnect context is built
\* equals the displayed transcript.
C32_SnapshotEqualsTranscript == chatHistoryRef = chatHistory

\* C33: at most one audio-frame tap and at most one animation loop are active.
C33_AtMostOneTapAndLoop ==
    /\ Cardinality(audioTaps) <= 1
    /\ Cardinality(animationLoops) <= 1

\* the session whose onopen most recently ran: startLoops stores its timer
LastOpened == frameInterval

\* C34: whenever the state is connected the stored handle is set and is the
\* session whose open acknowledgment produced that state.
C34_HandleFollowsOpen ==
    (mounted /\ connectionStatus = "connected")
        => (activeSessionRef # 0 /\ activeSessionRef = LastOpened)

\* C34 (amended): the same, once the continuation of the connect call that
\* follows the open acknowledgment has run.
C34_HandleFollowsOpenAfterResolve ==
    (mounted /\ connectionStatus = "connected" /\ microtasks = <<>>)
        => (activeSessionRef # 0 /\ activeSessionRef = LastOpened)

\* a retry's session has opened after the first one was closed by the retry,
\* and the continuation has stored its handle
C34_Witness ==
    /\ mounted
    /\ connectionStatus = "connected"
    /\ microtasks = <<>>
    /\ lastOp = Op("resolve", 2)
    /\ isRetry[2]
    /\ activeSessionRef = 2
    /\ session[1] \in {"closing", "dead"}

\* C35: a message with a tool call has none of its transcription, turn
\* boundary, audio or interruption processed; if the call is not
\* update_mindset the mindset and the transcript are unchanged and no
\* acknowledgment is queued or ever sent for it.
IsCoachRole(role) == role \in {"coach-feedback", "coach-reference", "coach-hint"}
C35_ToolMessageStep ==
    \A a \in Attempts, m \in MixedMessages :
        OnMessage(a, m)
            => /\ UNCHANGED <<sessionStatus, currentInputTranscription,
                              currentOutputTranscription, nextStartTime, sources,
                              stopping, decoding, segments, epoch, connectionStatus>>
               /\ \A k \in DOMAIN chatHistory' :
                      k > Len(chatHistory) => IsCoachRole(chatHistory'[k].role)
               /\ ~IsMindsetCall(m.calls[1])
                      => /\ UNCHANGED <<mindset, chatHistory, chatHistoryRef,
                                        toolResponses>>
                         /\ microtasks' = <<>>
C35_ToolMessageIsOnlyAToolCall ==
    /\ [][C35_ToolMessageStep]_vars
    /\ [](\A k \in DOMAIN toolResponses : toolResponses[k].name = "update_mindset")

\* a message with a call to another tool and some content has been handled
\* while both accumulators held text: nothing has changed
C35_Witness ==
    /\ lastOp.op = "toolCall"
    /\ Len(toolCallsSeen) = 1
    /\ toolCallsSeen[1].name = "other_tool"
    /\ currentOutputTranscription # <<>>
    /\ currentInputTranscription # <<>>
    /\ chatHistory = <<>>
    /\ toolResponses = <<>>
    /\ microtasks = <<>>

\* C36: a message that carries only an interruption empties the output
\* accumulator, sets the status to listening and leaves the input accumulator,
\* the transcript, the mindset and the connection state as they were; a turn
\* boundary that comes right after it appends the candidate's accumulated text
\* and no interviewer turn.
OnlyInterrupted(m) == m.interrupted /\ m \in OneFieldMessages
OnlyTurnComplete(m) == m.turnComplete /\ m \in OneFieldMessages
C36_InterruptStep ==
    \A a \in Attempts, m \in OneFieldMessages :
        (OnlyInterrupted(m) /\ OnMessage(a, m))
            => /\ currentOutputTranscription' = <<>>
               /\ sessionStatus' = "listening"
               /\ UNCHANGED <<currentInputTranscription, chatHistory, chatHistoryRef,
                              mindset, connectionStatus>>
C36_NextTurnStep ==
    \A a \in Attempts, m \in OneFieldMessages :
        (/\ lastOp.op = "message" /\ lastOp.interrupted
         /\ OnlyTurnComplete(m)
         /\ OnMessage(a, m))
            => chatHistory' =
                   chatHistory \o
                       (IF Trim(currentInputTranscription) # <<>>
                        THEN <<ChatMessage("user", currentInputTranscription, Now,
                                           NoMeta)>>
                        ELSE <<>>)
====
